---- MODULE Spec2Model ----
(***************************************************************************)
(* Rule resolution and cyclic file selection of vim-rule-switcher.         *)
(*                                                                         *)
(* The repository holds two implementations of the engine side by side:    *)
(*   "switcher" : denops/switcher/switcher.ts (+ util.ts), errors thrown   *)
(*                as SwitcherError;                                        *)
(*   "common"   : denops/switcher/common.ts, errors as undefined / false / *)
(*                Deno.exit.                                               *)
(* The dispatcher of denops/switcher/main.ts (lines 68-184) calls          *)
(* getSwitcherRule / switchByFileRule / addRule, which both files export   *)
(* with the same signatures.  The variable `variant` fixes which of the    *)
(* two a behaviour runs; it never changes.                                 *)
(*                                                                         *)
(* JavaScript strings are TLA+ strings; `undefined` is the value Undefined.*)
(* Array positions are 0-based as in the source (At0).                     *)
(***************************************************************************)
EXTENDS Integers, Sequences, FiniteSets, TLC

VARIABLES
  variant,    \* which implementation file the dispatcher is linked with
  selPaths,   \* cyclic selector: the path list handed to getNextFilePath
  selStart,   \* cyclic selector: the identity of the first call
  selCur,     \* cyclic selector: the current identity
  selArg,     \* cyclic selector: identity handed to the last call
  selRes,     \* cyclic selector: result of the last call
  selCount,   \* cyclic selector: number of calls made
  mProjects,  \* rule matcher: the resolved rules handed to findProject
  mFile,      \* rule matcher: the current file name
  mRule,      \* rule matcher: the requested rule kind
  mName,      \* rule matcher: the requested name
  mRes,       \* rule matcher: the rule findProject returned
  mDone,      \* rule matcher: findProject has been called
  store,      \* g:switch_rule and the content of the file it names
  curBuf,     \* path of the current buffer, expand("%:p")
  gitLines,   \* output of `git ls-files`, split into lines
  denoCwd,    \* working directory of the Deno process
  alive,      \* the plugin process runs (FALSE after Deno.exit)
  req,        \* the last request: operation, arguments, buffer at the time
  out,        \* what the last request left behind
  win,        \* lines of the floating window, <<>> when none is open
  pc,         \* save requests: where each request stands
  snap,       \* save requests: what each request has read and computed
  log,        \* save requests: the reads and writes of the store, in order
  nOps,       \* entry points: number of requests made
  rOp,        \* template resolver: the function applied last
  rStem,      \* template resolver: the file stem, expand("%:t:r")
  rRule,      \* template resolver: the rule carrying prefix and postfix
  rPath,      \* template resolver: the path template
  rRes        \* template resolver: the result of the last application

selVars == <<selPaths, selStart, selCur, selArg, selRes, selCount>>

matchVars == <<mProjects, mFile, mRule, mName, mRes, mDone>>

envVars == <<gitLines, denoCwd>>

reqVars == <<store, curBuf, alive, req, out>>

editVars == <<win, pc, snap, log, nOps>>

resVars == <<rOp, rStem, rRule, rPath, rRes>>

vars == <<variant, selVars, matchVars, envVars, reqVars, editVars, resVars>>

Variants == {"switcher", "common"}

(***************************************************************************)
(* JavaScript values                                                       *)
(***************************************************************************)

\* `undefined`: a value no path, file name or template equals.
Undefined == "<undefined>"

\* !x for a value that is a string or undefined.
Falsy(x) == x = Undefined \/ x = ""

\* s.includes(t)
Includes(s, t) ==
  \/ Len(t) = 0
  \/ \E i \in 1..(Len(s) - Len(t) + 1) : SubSeq(s, i, i + Len(t) - 1) = t

\* s.startsWith(t), s.endsWith(t)
StartsWith(s, t) == Len(t) <= Len(s) /\ SubSeq(s, 1, Len(t)) = t
EndsWith(s, t) ==
  Len(t) <= Len(s) /\ SubSeq(s, Len(s) - Len(t) + 1, Len(s)) = t

\* s.indexOf(t) as a 1-based position, 0 when t does not occur.
IndexOf(s, t) ==
  LET hits == {i \in 1..(Len(s) - Len(t) + 1) : SubSeq(s, i, i + Len(t) - 1) = t}
  IN  IF hits = {} THEN 0 ELSE CHOOSE i \in hits : \A j \in hits : i <= j

\* 1-based position of the last occurrence of t in s, 0 when there is none.
LastIndexOf(s, t) ==
  LET hits == {i \in 1..(Len(s) - Len(t) + 1) : SubSeq(s, i, i + Len(t) - 1) = t}
  IN  IF hits = {} THEN 0 ELSE CHOOSE i \in hits : \A j \in hits : j <= i

\* s.replace(pat, rep) with a string pattern: the FIRST occurrence only.
\* (No replacement text of the model holds a "$" pattern.)
ReplaceFirst(s, pat, rep) ==
  LET i == IndexOf(s, pat)
  IN  IF i = 0 THEN s
      ELSE SubSeq(s, 1, i - 1) \o rep \o SubSeq(s, i + Len(pat), Len(s))

\* Vim's expand("%:t") of a buffer path: the text after the last "/".
FileTail(p) == SubSeq(p, LastIndexOf(p, "/") + 1, Len(p))

\* Vim's ":r" modifier: the name without its last extension (a leading dot
\* starts no extension).
FileRoot(n) ==
  LET i == LastIndexOf(n, ".")
  IN  IF i > 1 THEN SubSeq(n, 1, i - 1) ELSE n

\* arr[i] with a 0-based index; out of range gives undefined.
At0(arr, i) == IF i >= 0 /\ i < Len(arr) THEN arr[i + 1] ELSE Undefined

\* arr.findIndex(pred), given the set of 1-based positions whose element
\* satisfies pred: the least of them as a 0-based index, or -1.
FindIndex(hits) ==
  IF hits = {} THEN -1
  ELSE (CHOOSE i \in hits : \A j \in hits : i <= j) - 1

(***************************************************************************)
(* Cyclic selector                                                         *)
(***************************************************************************)

\* The containment test both implementations hand to findIndex.
SelectorTest(currentPath, path) ==
  Includes(currentPath, path) \/ Includes(path, currentPath)

\* Mutant of getNextFilePath: the first entry, wherever the current file is.
getNextFilePath_First(currentPath, paths) == At0(paths, 0)

\* Mutant of getNextFilePath: the successor index is not wrapped.
getNextFilePath_NoWrap(currentPath, paths) ==
  LET currentIndex ==
        FindIndex({i \in 1..Len(paths) : SelectorTest(currentPath, paths[i])})
  IN  IF currentIndex = -1
      THEN Undefined
      ELSE At0(paths, currentIndex + 1)

\* Mutant of getNextFilePath: the LAST matching position is used.
getNextFilePath_LastMatch(currentPath, paths) ==
  LET Hits == {i \in 1..Len(paths) : SelectorTest(currentPath, paths[i])}
      currentIndex ==
        IF Hits = {} THEN -1
        ELSE (CHOOSE i \in Hits : \A j \in Hits : j <= i) - 1
  IN  IF currentIndex = -1
      THEN Undefined
      ELSE At0(paths, (currentIndex + 1) % Len(paths))

\* switcher.ts: getNextFilePath
getNextFilePath(currentPath, paths) ==
  LET currentIndex ==
        FindIndex({i \in 1..Len(paths) : SelectorTest(currentPath, paths[i])})
  IN  IF currentIndex = -1
      THEN Undefined
      ELSE At0(paths, (currentIndex + 1) % Len(paths))

\* common.ts: getNextFilePath inside switchByFileRule
getNextFilePathCommon(currentPath, paths) ==
  LET currentIndex ==
        FindIndex({i \in 1..Len(paths) : SelectorTest(currentPath, paths[i])})
      nextIndex == IF currentIndex = Len(paths) - 1 THEN 0 ELSE currentIndex + 1
  IN  At0(paths, nextIndex)

\* The selector of the implementation in use.
NextFilePath(v, currentPath, paths) ==
  IF v = "switcher"
  THEN getNextFilePath(currentPath, paths)
  ELSE getNextFilePathCommon(currentPath, paths)

(***************************************************************************)
(* Rule matcher                                                            *)
(***************************************************************************)

\* A resolved rule as getSwitcherRule builds it: {name, path, rule}.
Project(name, rule, path) == [name |-> name, rule |-> rule, path |-> path]

\* What Array.prototype.find gives when no element satisfies the test.
NoProject == Project(Undefined, Undefined, <<>>)

\* arr.find(pred), given the set of 1-based positions whose element
\* satisfies pred.
Find(arr, hits) ==
  IF hits = {} THEN NoProject
  ELSE arr[CHOOSE i \in hits : \A j \in hits : i <= j]

\* c.path.some((path) => path.includes(currentFile))
PathHolds(c, currentFile) ==
  \E k \in 1..Len(c.path) : Includes(c.path[k], currentFile)

\* Mutant of findProject: a path entry must EQUAL the current file.
findProject_ExactPath(replacedProjects, currentFile, rule, name) ==
  IF rule = "file"
  THEN Find(replacedProjects,
            {i \in 1..Len(replacedProjects) :
               \/ /\ replacedProjects[i].rule = rule
                  /\ replacedProjects[i].name = name
               \/ \E k \in 1..Len(replacedProjects[i].path) :
                    replacedProjects[i].path[k] = currentFile})
  ELSE IF rule = "git"
  THEN Find(replacedProjects,
            {i \in 1..Len(replacedProjects) : replacedProjects[i].rule = rule})
  ELSE NoProject

\* Mutant of findProject: a tracked-file request filters by name as well.
findProject_GitByName(replacedProjects, currentFile, rule, name) ==
  IF rule = "file"
  THEN Find(replacedProjects,
            {i \in 1..Len(replacedProjects) :
               \/ /\ replacedProjects[i].rule = rule
                  /\ replacedProjects[i].name = name
               \/ PathHolds(replacedProjects[i], currentFile)})
  ELSE IF rule = "git"
  THEN Find(replacedProjects,
            {i \in 1..Len(replacedProjects) :
               /\ replacedProjects[i].rule = rule
               /\ replacedProjects[i].name = name})
  ELSE NoProject

\* Mutant of findProject: when nothing matches, the first rule is returned.
findProject_DefaultFirst(replacedProjects, currentFile, rule, name) ==
  IF rule = "file"
  THEN Find(replacedProjects,
            IF \E i \in 1..Len(replacedProjects) :
                 \/ /\ replacedProjects[i].rule = rule
                    /\ replacedProjects[i].name = name
                 \/ PathHolds(replacedProjects[i], currentFile)
            THEN {i \in 1..Len(replacedProjects) :
                    \/ /\ replacedProjects[i].rule = rule
                       /\ replacedProjects[i].name = name
                    \/ PathHolds(replacedProjects[i], currentFile)}
            ELSE 1..Len(replacedProjects))
  ELSE IF rule = "git"
  THEN Find(replacedProjects,
            {i \in 1..Len(replacedProjects) : replacedProjects[i].rule = rule})
  ELSE NoProject

\* Mutant of findProject: an empty name stands for "any name".
findProject_EmptyNameAny(replacedProjects, currentFile, rule, name) ==
  IF rule = "file"
  THEN Find(replacedProjects,
            {i \in 1..Len(replacedProjects) :
               \/ /\ replacedProjects[i].rule = rule
                  /\ (name = "" \/ replacedProjects[i].name = name)
               \/ PathHolds(replacedProjects[i], currentFile)})
  ELSE IF rule = "git"
  THEN Find(replacedProjects,
            {i \in 1..Len(replacedProjects) : replacedProjects[i].rule = rule})
  ELSE NoProject

\* switcher.ts: findProject
findProject(replacedProjects, currentFile, rule, name) ==
  IF rule = "file"
  THEN Find(replacedProjects,
            {i \in 1..Len(replacedProjects) :
               \/ /\ replacedProjects[i].rule = rule
                  /\ replacedProjects[i].name = name
               \/ PathHolds(replacedProjects[i], currentFile)})
  ELSE IF rule = "git"
  THEN Find(replacedProjects,
            {i \in 1..Len(replacedProjects) : replacedProjects[i].rule = rule})
  ELSE NoProject

\* common.ts: findProject
findProjectCommon(replacedProjects, currentFile, rule, name) ==
  LET byName == Find(replacedProjects,
                     {i \in 1..Len(replacedProjects) :
                        /\ replacedProjects[i].rule = rule
                        /\ replacedProjects[i].name = name})
      byPath == Find(replacedProjects,
                     {i \in 1..Len(replacedProjects) :
                        PathHolds(replacedProjects[i], currentFile)})
      fileFound == IF byName # NoProject THEN byName ELSE byPath
      afterFile == IF rule = "file" THEN fileFound ELSE NoProject
  IN  IF rule = "git"
      THEN Find(replacedProjects,
                {i \in 1..Len(replacedProjects) : replacedProjects[i].rule = rule})
      ELSE afterFile

\* The matcher of the implementation in use.
FindProject(v, replacedProjects, currentFile, rule, name) ==
  IF v = "switcher"
  THEN findProject(replacedProjects, currentFile, rule, name)
  ELSE findProjectCommon(replacedProjects, currentFile, rule, name)

(***************************************************************************)
(* Template resolver                                                       *)
(***************************************************************************)

\* A rule as the store holds it.  prefix / postfix "" stand for an absent
\* key: the code tests them for truthiness only.
Rule(rule, path, prefix, postfix) ==
  [rule |-> rule, path |-> path, prefix |-> prefix, postfix |-> postfix]

\* A project as the store holds it.
StoredProject(name, rules) == [name |-> name, rules |-> rules]

\* Mutant of getCommonPart: the postfix is left in place.
getCommonPart_KeepPostfix(fileName, project) ==
  IF project.prefix # "" /\ StartsWith(fileName, project.prefix)
  THEN ReplaceFirst(fileName, project.prefix, "")
  ELSE fileName

\* util.ts: getCommonPart (the value returned is baseName)
getCommonPart(fileName, project) ==
  LET afterPostfix ==
        IF project.postfix # "" /\ EndsWith(fileName, project.postfix)
        THEN ReplaceFirst(fileName, project.postfix, "")
        ELSE fileName
  IN  IF project.prefix # "" /\ StartsWith(afterPostfix, project.prefix)
      THEN ReplaceFirst(afterPostfix, project.prefix, "")
      ELSE afterPostfix

\* common.ts: getCommonPart
getCommonPartCommon(fileName, project) ==
  LET updatedFileName ==
        IF project.postfix # "" /\ EndsWith(fileName, project.postfix)
        THEN ReplaceFirst(fileName, project.postfix, "")
        ELSE fileName
  IN  IF project.prefix # "" /\ StartsWith(updatedFileName, project.prefix)
      THEN ReplaceFirst(updatedFileName, project.prefix, "")
      ELSE updatedFileName

\* getSwitcherRule: the closure realPath, the same text in both files.
realPath(v, path, fileName, rule, homeDirectory) ==
  LET updatedPath ==
        IF Includes(path, "%")
        THEN ReplaceFirst(path, "%",
               IF v = "switcher"
               THEN getCommonPart(fileName, rule)
               ELSE getCommonPartCommon(fileName, rule))
        ELSE path
  IN  ReplaceFirst(updatedPath, "~", homeDirectory)

\* getSwitcherRule: project.rules.map(...) for one project.
ReplacedRules(v, project, fileName, homeDirectory) ==
  [k \in 1..Len(project.rules) |->
     Project(project.name,
             project.rules[k].rule,
             [n \in 1..Len(project.rules[k].path) |->
                realPath(v, project.rules[k].path[n], fileName,
                         project.rules[k], homeDirectory)])]

\* getSwitcherRule: switchers.projects.flatMap(...)
RECURSIVE ReplacedConditions(_, _, _, _)
ReplacedConditions(v, projects, fileName, homeDirectory) ==
  IF projects = <<>> THEN <<>>
  ELSE ReplacedRules(v, Head(projects), fileName, homeDirectory)
       \o ReplacedConditions(v, Tail(projects), fileName, homeDirectory)

(***************************************************************************)
(* Environment: file system, home directory, version control               *)
(***************************************************************************)

\* Deno.env.get("HOME")
HomeDirectory == "/h"

\* Files on disk, by canonical path, and symbolic links (link, target).
FsFiles ==
  {"/a/foo.ts", "/a/fooTest.ts", "/z/unrelated.txt",
   "/r/src/main.ts", "/r/src/mainTest.ts", "/r/test/mainTest.ts", "/h/x.ts",
   "/z/foo.ts"}
FsLinks == {<<"/l/foo.ts", "/a/foo.ts">>}

\* What Deno.realPathSync throws for a path that names no file.
NotFound == "<NotFound>"

\* Deno.realPathSync(p) in a process whose working directory is cwd.
RealPathSync(p, cwd) ==
  LET abs == IF StartsWith(p, "/") THEN p ELSE cwd \o "/" \o p
  IN  IF abs \in FsFiles THEN abs
      ELSE IF \E l \in FsLinks : l[1] = abs
      THEN (CHOOSE l \in FsLinks : l[1] = abs)[2]
      ELSE NotFound

\* `git ls-files` outside a repository: git's message, then split("\n").
NoRepoLines ==
  <<"fatal: not a git repository (or any of the parent directories): .git", "">>

(***************************************************************************)
(* Configuration store adapter                                             *)
(***************************************************************************)

\* The store: g:switch_rule and the file it names.
\*   unset     g:switch_rule is not set
\*   missing   the file does not exist
\*   empty     the file has no line
\*   badjson   the file is not JSON
\*   badschema JSON without the projects/rules structure
\*   ok        JSON of the projects/rules structure, held in `projects`
Store(status, projects) == [status |-> status, projects |-> projects]

\* An outcome of getSwitchers / getSwitcherRule.
\*   tag: "ok" (returned), "throw" (an error was thrown), "exit" (Deno.exit)
Got(tag, msg, projects, project) ==
  [tag |-> tag, msg |-> msg, projects |-> projects, project |-> project]

\* switcher.ts / common.ts: getSwitchers.  The first test,
\* !v.g.get(denops, "switch_rule"), negates a promise and never holds.
getSwitchers(v, st) ==
  IF st.status = "unset"
  THEN Got("throw", "AssertError", <<>>, NoProject)        \* ensure(null, is.String)
  ELSE IF st.status = "missing"
  THEN Got("throw", "E484", <<>>, NoProject)               \* fn.readfile
  ELSE IF st.status = "empty"
  THEN IF v = "switcher"
       THEN Got("throw", "No switch rule found", <<>>, NoProject)
       ELSE Got("exit", "No switch rule found.", <<>>, NoProject)   \* Deno.exit(1)
  ELSE IF st.status = "badjson"
  THEN Got("throw", "SyntaxError", <<>>, NoProject)        \* JSON.parse
  ELSE IF st.status = "badschema"
  THEN Got("throw", "AssertError", <<>>, NoProject)        \* ensure(settings, ...)
  ELSE IF /\ v = "switcher"
          /\ \E i \in 1..Len(st.projects) :
               \E j \in 1..Len(st.projects[i].rules) :
                 st.projects[i].rules[j].rule \notin {"file", "git"}
  THEN Got("throw", "AssertError", <<>>, NoProject)        \* is.LiteralOneOf
  ELSE Got("ok", "", st.projects, NoProject)

\* switcher.ts / common.ts: getSwitcherRule
getSwitcherRule(v, st, buf, rule, name) ==
  LET switchers == getSwitchers(v, st)
      fileName == FileRoot(FileTail(buf))           \* expand("%:t:r")
      replacedConditions ==
        ReplacedConditions(v, switchers.projects, fileName, HomeDirectory)
      currentFileName == FileTail(buf)              \* expand("%:t")
      condition == FindProject(v, replacedConditions, currentFileName, rule, name)
  IN  IF switchers.tag # "ok" THEN switchers
      ELSE IF condition = NoProject /\ v = "switcher"
      THEN Got("throw", "No matching switch rule found", <<>>, NoProject)
      ELSE Got("ok", "", <<>>, condition)

(***************************************************************************)
(* Opening the selected file                                               *)
(***************************************************************************)

\* An outcome of switchByFileRule / handleGitFile / openFile.
\*   tag: "ok" (returned `value`) or "throw"; open: the path given to :e
Did(tag, value, open, msg) ==
  [tag |-> tag, value |-> value, open |-> open, msg |-> msg]

\* util.ts / common.ts: openFile
openFile(filePath) ==
  IF Falsy(filePath)
  THEN Did("ok", FALSE, Undefined, "")
  ELSE Did("ok", TRUE, filePath, "")

\* Mutant of TargetFile: the last line containing the name is taken.
TargetFile_LastMatch(lines, filePathToOpen) ==
  LET hits == {i \in 1..Len(lines) : Includes(lines[i], filePathToOpen)}
  IN  IF hits = {} THEN Undefined
      ELSE lines[CHOOSE i \in hits : \A j \in hits : j <= i]

\* result.split("\n").find((file) => file.includes(filePathToOpen))
TargetFile(lines, filePathToOpen) ==
  LET hits == {i \in 1..Len(lines) : Includes(lines[i], filePathToOpen)}
  IN  IF hits = {} THEN Undefined
      ELSE lines[CHOOSE i \in hits : \A j \in hits : i <= j]

\* switcher.ts / common.ts: handleGitFile
handleGitFile(v, filePathToOpen, lines, cwd) ==
  LET targetFile == TargetFile(lines, filePathToOpen)
      real == RealPathSync(targetFile, cwd)
  IN  IF Falsy(filePathToOpen)
      THEN IF v = "switcher"
           THEN Did("throw", FALSE, Undefined, "File path is undefined")
           ELSE Did("ok", FALSE, Undefined, "")
      ELSE IF Falsy(targetFile)
      THEN IF v = "switcher"
           THEN Did("throw", FALSE, Undefined,
                    "No matching file found in git repository")
           ELSE Did("ok", FALSE, Undefined, "No switch rule found.")
      ELSE IF real = NotFound
      THEN Did("throw", FALSE, Undefined, "NotFound")
      ELSE openFile(real)

\* switcher.ts / common.ts: switchByFileRule
switchByFileRule(v, project, buf, lines, cwd) ==
  LET currentPath == RealPathSync(buf, cwd)         \* getCurrentFileRealPath
      currentFileName == FileTail(buf)
      nextForFile == NextFilePath(v, currentPath, project.path)
      nextForGit == NextFilePath(v, currentFileName, project.path)
  IN  IF project.rule = "file"
      THEN IF currentPath = NotFound
           THEN Did("throw", FALSE, Undefined, "NotFound")
           ELSE IF v = "switcher" /\ Falsy(nextForFile)
           THEN Did("throw", FALSE, Undefined, "No next file path found")
           ELSE openFile(nextForFile)
      ELSE IF project.rule = "git"
      THEN handleGitFile(v, nextForGit, lines, cwd)
      ELSE IF v = "switcher"
      THEN Did("throw", FALSE, Undefined, "Unknown rule type")
      ELSE Did("ok", FALSE, Undefined, "")

\* What a request leaves behind.
\*   ret: "true" / "false" returned to the caller, "exit" when the process
\*        ended in Deno.exit; open: the path given to :e, or undefined;
\*   err: the message reported; matched: the rule the matcher returned.
Outcome(ret, open, err, matched) ==
  [ret |-> ret, open |-> open, err |-> err, matched |-> matched]

\* main.ts: switchByRule (rule and project already defaulted by ??)
switchByRule(v, st, buf, ruleName, projectName, lines, cwd) ==
  LET got == getSwitcherRule(v, st, buf, ruleName, projectName)
      switcher == got.project
      did == switchByFileRule(v, switcher, buf, lines, cwd)
  IN  IF got.tag = "exit" THEN Outcome("exit", Undefined, got.msg, NoProject)
      ELSE IF got.tag = "throw" THEN Outcome("false", Undefined, got.msg, NoProject)
      ELSE IF switcher = NoProject
      THEN Outcome("false", Undefined, "No switch rule found.", NoProject)
      ELSE IF did.tag = "throw" THEN Outcome("false", Undefined, did.msg, switcher)
      ELSE Outcome("true", did.open, did.msg, switcher)

(***************************************************************************)
(* SpecSel: the cyclic selector applied repeatedly, each result becoming   *)
(* the next current identity (the file opened is the next current file).   *)
(***************************************************************************)

\* Longest path list drawn.
MaxPaths == 3

\* Path entries: some contain one another, some do not.
SelEntries == {"a", "b", "ab", "ba"}

\* Identities: the entries, one containing all of them, one unrelated.
SelIdents == SelEntries \cup {"aba", "c"}

SeqsUpTo(S, n) == UNION {[1..k -> S] : k \in 0..n}

\* The save requests that may be in flight at once.
MaxSavers == 2

Procs == 1..MaxSavers

\* What a save request holds between its read and its write: the arguments,
\* the configuration it will write (tag "ok") or the error it met (tag
\* "throw"), and the store content it read.
Snap(tag, msg, name, file, projects, readStore) ==
  [tag |-> tag, msg |-> msg, name |-> name, file |-> file,
   projects |-> projects, readStore |-> readStore]

NoSnap == Snap("none", "", "", "", <<>>, <<>>)

\* The variables of the other specifications, at rest.
EditIdle ==
  /\ win = <<>>
  /\ pc = [p \in Procs |-> "idle"]
  /\ snap = [p \in Procs |-> NoSnap]
  /\ log = <<>>
  /\ nOps = 0

ResolveIdle ==
  /\ rOp = "none" /\ rStem = "" /\ rPath = "" /\ rRes = ""
  /\ rRule = Rule("file", <<>>, "", "")

MatchIdle ==
  /\ mProjects = <<>> /\ mFile = "" /\ mRule = "" /\ mName = ""
  /\ mRes = NoProject /\ mDone = FALSE

Request(op, rule, name, buf) ==
  [op |-> op, rule |-> rule, name |-> name, buf |-> buf]

ReqIdle ==
  /\ store = Store("unset", <<>>) /\ curBuf = ""
  /\ gitLines = <<>> /\ denoCwd = "" /\ alive = TRUE
  /\ req = Request("none", "", "", "")
  /\ out = Outcome("none", Undefined, "", NoProject)

SelInit ==
  /\ variant \in Variants
  /\ selPaths \in SeqsUpTo(SelEntries, MaxPaths)
  /\ selStart \in SelIdents
  /\ selCur = selStart
  /\ selArg = Undefined
  /\ selRes = Undefined
  /\ selCount = 0
  /\ MatchIdle
  /\ ReqIdle
  /\ EditIdle
  /\ ResolveIdle

\* One call of the selector; a defined result becomes the current identity.
ApplySelector ==
  /\ selCount < MaxPaths
  /\ LET r == NextFilePath(variant, selCur, selPaths)
     IN  /\ selRes' = r
         /\ selArg' = selCur
         /\ selCur' = IF Falsy(r) THEN selCur ELSE r
  /\ selCount' = selCount + 1
  /\ UNCHANGED <<variant, selPaths, selStart, matchVars, envVars, reqVars,
                 editVars, resVars>>

SelNext == ApplySelector

SpecSel == SelInit /\ [][SelNext]_vars

\* Position i (1-based) of the list matches identity id.
SelMatches(id, i) ==
  Includes(id, selPaths[i]) \/ Includes(selPaths[i], id)

\* No entry of the list contains another entry (none is repeated either).
NoEntryContainsAnother ==
  \A i, j \in 1..Len(selPaths) :
    i # j => ~Includes(selPaths[i], selPaths[j])

\* N calls were made, starting from P[0].
AfterFullCycle ==
  /\ Len(selPaths) > 0
  /\ selStart = selPaths[1]
  /\ selCount = Len(selPaths)

\* C1 (as claimed): for every non-empty list P, also one with repeated
\* entries or entries contained in one another, N calls starting from P[0]
\* return P[0].
C1_CycleClosureAnyList == AfterFullCycle => selRes = selPaths[1]

\* C1 (amended): for a non-empty list P none of whose entries contains
\* another, N calls starting from P[0] return P[0].
C1_CycleClosure ==
  (AfterFullCycle /\ NoEntryContainsAnother) => selRes = selPaths[1]

\* C1 witness: a full cycle over a list of at least two unrelated entries.
C1_Witness ==
  /\ AfterFullCycle
  /\ NoEntryContainsAnother
  /\ Len(selPaths) >= 2
  /\ selRes = selPaths[1]

\* C2: for a non-empty list P and an identity that no entry contains and
\* that contains no entry, the selector returns P[0].
C2_FallbackToFirst ==
  ( /\ selCount = 1
    /\ Len(selPaths) > 0
    /\ \A i \in 1..Len(selPaths) : ~SelMatches(selStart, i) )
  => selRes = selPaths[1]

\* C3: when some position matches the identity, the result is the entry
\* after the FIRST matching position, cyclically.
C3_FirstMatchSuccessor ==
  ( /\ selCount > 0
    /\ \E i \in 1..Len(selPaths) : SelMatches(selArg, i) )
  => \E i \in 1..Len(selPaths) :
       /\ SelMatches(selArg, i)
       /\ \A j \in 1..(i - 1) : ~SelMatches(selArg, j)
       /\ selRes = selPaths[(i % Len(selPaths)) + 1]

\* C3 witness: two positions match and their successors differ; the result
\* is the successor of the first.
C3_Witness ==
  /\ selCount > 0
  /\ \E i, j \in 1..Len(selPaths) :
       /\ i < j
       /\ SelMatches(selArg, i)
       /\ SelMatches(selArg, j)
       /\ \A k \in 1..(i - 1) : ~SelMatches(selArg, k)
       /\ selPaths[(i % Len(selPaths)) + 1] # selPaths[(j % Len(selPaths)) + 1]
       /\ selRes = selPaths[(i % Len(selPaths)) + 1]

(***************************************************************************)
(* SpecMatch: findProject applied to drawn resolved rules.                 *)
(***************************************************************************)

\* Longest list of resolved rules drawn.
MaxRules == 2

\* Names rules carry, and names a request supplies ("" when none is given).
MRuleNames == {"p", "q"}
MReqNames == {"", "p", "z"}

\* Path lists: one whose entry contains the file names "ab" and "b", one
\* whose entry is a proper substring of "ab", and the empty list.
MPathLists == {<<"x/ab">>, <<"a">>, <<>>}

MFiles == {"ab", "c"}

MProjectSet ==
  {Project(n, r, pl) : n \in MRuleNames, r \in {"file", "git"}, pl \in MPathLists}

SelIdle ==
  /\ selPaths = <<>> /\ selStart = "" /\ selCur = ""
  /\ selArg = Undefined /\ selRes = Undefined /\ selCount = 0

MatchInit ==
  /\ variant \in Variants
  /\ mProjects \in SeqsUpTo(MProjectSet, MaxRules)
  /\ mFile \in MFiles
  /\ mRule \in {"file", "git", "other"}
  /\ mName \in MReqNames
  /\ mRes = NoProject
  /\ mDone = FALSE
  /\ SelIdle
  /\ ReqIdle
  /\ EditIdle
  /\ ResolveIdle

ApplyMatcher ==
  /\ ~mDone
  /\ mRes' = FindProject(variant, mProjects, mFile, mRule, mName)
  /\ mDone' = TRUE
  /\ UNCHANGED <<variant, mProjects, mFile, mRule, mName, selVars, envVars,
                 reqVars, editVars, resVars>>

MatchNext == ApplyMatcher

SpecMatch == MatchInit /\ [][MatchNext]_vars

\* Positions (1-based) of the rules of kind PathBased carrying the name.
NamedFileRules ==
  {i \in 1..Len(mProjects) :
     mProjects[i].rule = "file" /\ mProjects[i].name = mName}

\* Positions of the rules with an entry that contains the current file.
RulesContainingFile ==
  {i \in 1..Len(mProjects) :
     \E k \in 1..Len(mProjects[i].path) : Includes(mProjects[i].path[k], mFile)}

\* Positions of the rules with an entry that contains the current file or
\* is contained in it.
RulesRelatedToFile ==
  {i \in 1..Len(mProjects) :
     \E k \in 1..Len(mProjects[i].path) :
       \/ Includes(mProjects[i].path[k], mFile)
       \/ Includes(mFile, mProjects[i].path[k])}

Least(S) == CHOOSE i \in S : \A j \in S : i <= j

\* C4: PathBased request with a name some PathBased rule carries: the first
\* such rule is returned, whatever rule declared earlier contains the file.
C4_NamePreferred ==
  (mDone /\ mRule = "file" /\ NamedFileRules # {})
  => mRes = mProjects[Least(NamedFileRules)]

\* C5 (as claimed): with no rule matching by name, the first rule with an
\* entry containing the current file OR contained in it is returned.
C5_BidirectionalFallback ==
  (mDone /\ mRule = "file" /\ NamedFileRules = {} /\ RulesRelatedToFile # {})
  => mRes = mProjects[Least(RulesRelatedToFile)]

\* C5 (amended): with no rule matching by name, the first rule with an entry
\* that CONTAINS the current file is returned; when there is none, no rule
\* is returned, even if an entry is a proper substring of the current file.
C5_ContainingFallback ==
  (mDone /\ mRule = "file" /\ NamedFileRules = {})
  => IF RulesContainingFile = {}
     THEN mRes = NoProject
     ELSE mRes = mProjects[Least(RulesContainingFile)]

\* C5 witness: the first rule's entry is a proper substring of the file and
\* is passed over; the second rule, whose entry contains the file, is
\* returned.
C5_Witness ==
  /\ mDone /\ mRule = "file" /\ NamedFileRules = {}
  /\ Len(mProjects) = 2
  /\ 1 \in RulesRelatedToFile
  /\ RulesContainingFile = {2}
  /\ mRes = mProjects[2]

(***************************************************************************)
(* Spec: requests of the dispatcher against a store, a current buffer and  *)
(* a version-control listing.                                              *)
(***************************************************************************)

\* Most projects a drawn store holds.
MaxProjects == 2

\* Scenario A's rule, under a name and under the empty name.
PScenarioA(name) ==
  StoredProject(name, <<Rule("file", <<"/a/foo.ts", "/a/fooTest.ts">>, "", "")>>)

\* The README's git rule.
PReadmeGit ==
  StoredProject("q", <<Rule("git", <<"%.ts", "%Test.ts">>, "", "Test")>>)

\* A project of two rules, the first tracked-file based and untracked, the
\* second with a home token.
PTwoRules ==
  StoredProject("g",
    <<Rule("git", <<"zz.ts">>, "", ""),
      Rule("file", <<"~/x.ts", "/r/src/main.ts", "/r/src/%Test.ts">>, "", "Test")>>)

\* A project without rules, and a rule without paths.
PEmptyRules == StoredProject("p", <<>>)
PEmptyPath == StoredProject("p", <<Rule("file", <<>>, "", "")>>)

\* A rule whose one entry holds the text the selection list puts before a
\* path.
PLabelled == StoredProject("p", <<Rule("file", <<"/a/path: foo.ts">>, "", "")>>)

\* A project whose first rule is tracked-file based and whose second rule is
\* Scenario A's.
PGitFirst ==
  StoredProject("p",
    <<Rule("git", <<"%.ts", "%Test.ts">>, "", "Test"),
      Rule("file", <<"/a/foo.ts", "/a/fooTest.ts">>, "", "")>>)

ProjectSet ==
  {PScenarioA("p"), PScenarioA(""), PReadmeGit, PTwoRules,
   PEmptyRules, PEmptyPath}

StoreSet ==
  {Store(st, <<>>) : st \in {"unset", "missing", "empty", "badjson", "badschema"}}
  \cup {Store("ok", ps) : ps \in SeqsUpTo(ProjectSet, MaxProjects)}

\* Buffers a session starts in: files on disk, one reached through a
\* symbolic link, one not yet written.
BufferSet ==
  {"/a/foo.ts", "/z/unrelated.txt", "/r/src/main.ts", "/l/foo.ts", "/n/new.ts"}

\* `git ls-files` run in the repository /r: its output split into lines.
RepoLines == <<"src/main.ts", "src/mainTest.ts", "test/mainTest.ts", "">>

\* Environments <<gitLines, denoCwd>>: inside the repository /r with Deno
\* started at its root, inside it with Deno started elsewhere, and outside
\* any repository.
EnvSet == {<<RepoLines, "/r">>, <<RepoLines, "/z">>, <<NoRepoLines, "/z">>}

\* Arguments of :SwitchFileByRule after defaulting (rule ?? "file",
\* project ?? "").
ReqRules == {"file", "git", "p"}
ReqNames == {"", "p", "zz"}

Init ==
  /\ variant \in Variants
  /\ store \in StoreSet
  /\ curBuf \in BufferSet
  /\ \E env \in EnvSet : gitLines = env[1] /\ denoCwd = env[2]
  /\ alive = TRUE
  /\ req = Request("none", "", "", "")
  /\ out = Outcome("none", Undefined, "", NoProject)
  /\ SelIdle
  /\ MatchIdle
  /\ EditIdle
  /\ ResolveIdle

\* :SwitchFileByRule [rule] [name]
SwitchByRule(rule, name) ==
  /\ alive
  /\ out' = switchByRule(variant, store, curBuf, rule, name, gitLines, denoCwd)
  /\ curBuf' = IF out'.open = Undefined THEN curBuf ELSE out'.open
  /\ alive' = (out'.ret # "exit")
  /\ req' = Request("switch", rule, name, curBuf)
  /\ UNCHANGED <<variant, store, envVars, selVars, matchVars, editVars, resVars>>

Next ==
  \E rule \in ReqRules, name \in ReqNames : SwitchByRule(rule, name)

Spec == Init /\ [][Next]_vars

\* The last request was a navigation request against a well-formed store.
SwitchedOnOkStore == req.op = "switch" /\ store.status = "ok"

\* The rules of the store resolved for the buffer of the last request, in
\* declaration order.
ResolvedAtRequest ==
  ReplacedConditions(variant, store.projects, FileRoot(FileTail(req.buf)),
                     HomeDirectory)

\* Positions <<i, j>> of the tracked-file rules: rule j of project i.
GitRulePositions ==
  {pos \in UNION {{<<i, j>> : j \in 1..Len(store.projects[i].rules)} :
                    i \in 1..Len(store.projects)} :
     store.projects[pos[1]].rules[pos[2]].rule = "git"}

\* pos comes before every other tracked-file rule in declaration order.
FirstGitRule(pos) ==
  /\ pos \in GitRulePositions
  /\ \A other \in GitRulePositions :
       \/ pos[1] < other[1]
       \/ (pos[1] = other[1] /\ pos[2] <= other[2])

NoRuleByName ==
  \A i \in 1..Len(ResolvedAtRequest) :
    ~(ResolvedAtRequest[i].rule = "file" /\ ResolvedAtRequest[i].name = req.name)

\* No resolved rule has a path entry containing the current file name.
NoRuleByPath ==
  \A i \in 1..Len(ResolvedAtRequest) :
    \A k \in 1..Len(ResolvedAtRequest[i].path) :
      ~Includes(ResolvedAtRequest[i].path[k], FileTail(req.buf))

\* C7: a PathBased request whose name no rule carries and whose current file
\* no rule's paths contain ends in NoMatchingRule: switchByRule returns
\* false, the process lives on and no file is opened.
C7_NoMatchIsReportedFailure ==
  (SwitchedOnOkStore /\ req.rule = "file" /\ NoRuleByName /\ NoRuleByPath)
  => /\ out.matched = NoProject
     /\ out.err \in {"No matching switch rule found", "No switch rule found."}
     /\ out.ret = "false"
     /\ out.open = Undefined
     /\ curBuf = req.buf
     /\ alive

\* C7 witness: Scenario D on a store that holds a PathBased rule with paths.
C7_Witness ==
  /\ SwitchedOnOkStore /\ req.rule = "file" /\ req.name = "zz"
  /\ NoRuleByName /\ NoRuleByPath
  /\ \E i \in 1..Len(ResolvedAtRequest) :
       ResolvedAtRequest[i].rule = "file" /\ ResolvedAtRequest[i].path # <<>>
  /\ out.ret = "false"

\* Scenario C: the store holds only Scenario A's rule, under project name n;
\* the current file is /z/unrelated.txt; the request gives no name.
ScenarioC(n) ==
  /\ SwitchedOnOkStore
  /\ store.projects = <<PScenarioA(n)>>
  /\ req.rule = "file" /\ req.name = ""
  /\ req.buf = "/z/unrelated.txt"

\* C8 (as claimed): in Scenario C the rule is matched and /a/foo.ts is the
\* file chosen.
C8_ScenarioCOpensFirst ==
  \A n \in {"p", ""} :
    ScenarioC(n)
    => /\ out.matched = Project(n, "file", <<"/a/foo.ts", "/a/fooTest.ts">>)
       /\ out.open = "/a/foo.ts"

\* C8 (amended): in Scenario C with the rule under a non-empty project name,
\* no rule is matched: the request returns false and no file is chosen.
C8_ScenarioCNoMatch ==
  ScenarioC("p")
  => /\ out.matched = NoProject
     /\ out.ret = "false"
     /\ out.open = Undefined
     /\ curBuf = "/z/unrelated.txt"

\* C8 witness: Scenario C has run and failed.
C8_Witness == ScenarioC("p") /\ out.ret = "false"

\* The template the selector picks for the matched tracked-file rule.
SelectedTemplate ==
  NextFilePath(variant, FileTail(req.buf), out.matched.path)

\* The matcher found no rule.
NoMatchingRuleCase == SwitchedOnOkStore /\ out.matched = NoProject

\* A tracked-file rule was matched and its selected template is in no line
\* of the listing of the repository.
TrackedFileNotFoundCase ==
  /\ SwitchedOnOkStore
  /\ out.matched.rule = "git"
  /\ ~Falsy(SelectedTemplate)
  /\ gitLines # NoRepoLines
  /\ \A i \in 1..Len(gitLines) : ~Includes(gitLines[i], SelectedTemplate)

\* A tracked-file rule was matched outside any repository.
RepositoryUnavailableCase ==
  /\ SwitchedOnOkStore
  /\ out.matched.rule = "git"
  /\ ~Falsy(SelectedTemplate)
  /\ gitLines = NoRepoLines

\* C9: a request ending in NoMatchingRule, TrackedFileNotFound or
\* RepositoryUnavailable returns false (and nothing else).
C9_FailuresReturnFalse ==
  (NoMatchingRuleCase \/ TrackedFileNotFoundCase \/ RepositoryUnavailableCase)
  => out.ret = "false"

\* C10: with the store missing, empty or malformed, a navigation request
\* ends in a reported failure: the process lives on, false is returned and
\* no file is opened.
C10_ConfigFailureReported ==
  (req.op = "switch" /\ store.status # "ok")
  => /\ alive
     /\ out.ret = "false"
     /\ out.open = Undefined

\* C12: when the matched rule has an empty path list the request is
\* reported as a failure: switchByRule does not return success and no file
\* is opened.
C12_EmptyPathIsFailure ==
  (SwitchedOnOkStore /\ out.matched # NoProject /\ out.matched.path = <<>>)
  => (out.ret = "false" /\ out.open = Undefined)

\* The first tracked-file rule of the store is the one of the README:
\* {rule: git, postfix: Test, path: [%.ts, %Test.ts]}.
ReadmeGitFirst ==
  \E pos \in GitRulePositions :
    /\ FirstGitRule(pos)
    /\ store.projects[pos[1]].rules[pos[2]] = PReadmeGit.rules[1]

GitSwitch ==
  /\ SwitchedOnOkStore
  /\ out.matched.rule = "git"
  /\ ~Falsy(SelectedTemplate)

\* Positions of the listing entries containing the template name.
TrackedHits ==
  {i \in 1..Len(gitLines) : Includes(gitLines[i], SelectedTemplate)}

\* The first of them, in listing order.
FirstTracked == gitLines[Least(TrackedHits)]

ResStems ==
  {"foo", "fooTest", "TestFooTest", "Testfoo", "aTestb", "test_a", "~a", "a~b"}

ResPrefixes == {"", "Test", "test_"}

ResPostfixes == {"", "Test"}

\* Path templates: with and without %, with ~ in front and further in.
ResTemplates ==
  {"%.ts", "%Test.ts", "~/%.ts", "~/x~y.ts", "/a/b~c/%.ts", "/a/%/~x.ts"}

ResolveInit ==
  /\ variant \in Variants
  /\ rOp = "none"
  /\ rStem \in ResStems
  /\ \E pre \in ResPrefixes, post \in ResPostfixes :
       rRule = Rule("file", <<>>, pre, post)
  /\ rPath \in ResTemplates
  /\ rRes = ""
  /\ SelIdle
  /\ MatchIdle
  /\ ReqIdle
  /\ EditIdle

\* getCommonPart(fileName, rule), as the variant defines it.
CommonPart(v, fileName, rule) ==
  IF v = "switcher"
  THEN getCommonPart(fileName, rule)
  ELSE getCommonPartCommon(fileName, rule)

ApplyCommonPart ==
  /\ rOp = "none"
  /\ rOp' = "common"
  /\ rRes' = CommonPart(variant, rStem, rRule)
  /\ UNCHANGED <<variant, rStem, rRule, rPath, selVars, matchVars, envVars,
                 reqVars, editVars>>

ApplyRealPath ==
  /\ rOp = "none"
  /\ rOp' = "real"
  /\ rRes' = realPath(variant, rPath, rStem, rRule, HomeDirectory)
  /\ UNCHANGED <<variant, rStem, rRule, rPath, selVars, matchVars, envVars,
                 reqVars, editVars>>

ResolveNext == ApplyCommonPart \/ ApplyRealPath

SpecResolve == ResolveInit /\ [][ResolveNext]_vars

\* The stem with the postfix cut from its end, then the prefix cut from the
\* start of what remains.
StripAffixes(stem, prefix, postfix) ==
  LET rest == IF postfix # "" /\ EndsWith(stem, postfix)
              THEN SubSeq(stem, 1, Len(stem) - Len(postfix))
              ELSE stem
  IN  IF prefix # "" /\ StartsWith(rest, prefix)
      THEN SubSeq(rest, Len(prefix) + 1, Len(rest))
      ELSE rest

\* C13: the common part of a stem is the stem with the postfix removed from
\* its end when it ends with it, then the prefix removed from its start
\* when the rest starts with it; nothing else is removed.
C13_AffixesCutAtTheEnds ==
  rOp = "common"
  => rRes = StripAffixes(rStem, rRule.prefix, rRule.postfix)

\* The template with % replaced by the common part of the stem.
Substituted ==
  IF Includes(rPath, "%")
  THEN ReplaceFirst(rPath, "%", CommonPart(variant, rStem, rRule))
  ELSE rPath

\* C14: home expansion replaces only a leading ~ of the template; a ~
\* further in, or one brought in by the stem, stays as it is.
C14_LeadingHomeOnly ==
  rOp = "real"
  => rRes = IF StartsWith(rPath, "~")
            THEN HomeDirectory \o SubSeq(Substituted, 2, Len(Substituted))
            ELSE Substituted

(***************************************************************************)
(* SpecEdit: the entry points other than switchByRule.  A save request     *)
(* reads the store, awaits the editor for the current file, and then       *)
(* writes the store whole; other requests run between the two steps.       *)
(***************************************************************************)

\* The position (1-based) of the first project carrying the name, 0 if none.
ExistingCondition(projects, projectName) ==
  LET hits == {i \in 1..Len(projects) : projects[i].name = projectName}
  IN  IF hits = {} THEN 0 ELSE CHOOSE i \in hits : \A j \in hits : i <= j

\* arr.includes(x)
ArrayIncludes(arr, x) == \E k \in 1..Len(arr) : arr[k] = x

\* Mutant of addRuleEntry: the path is pushed without looking for it first.
addRuleEntry_AlwaysPush(projects, projectName, filePath) ==
  LET i == ExistingCondition(projects, projectName)
      condition ==
        IF i = 0
        THEN StoredProject(projectName, <<Rule("file", <<>>, "", "")>>)
        ELSE projects[i]
      pushed ==
        [condition EXCEPT !.rules[1].path = Append(condition.rules[1].path, filePath)]
  IN  IF condition.rules = <<>>
      THEN <<"throw", "TypeError">>
      ELSE IF i = 0
      THEN <<"ok", <<pushed>> \o projects>>
      ELSE <<"ok", [projects EXCEPT ![i] = pushed]>>

\* Mutant of addRuleEntry: a new project goes to the back.
addRuleEntry_PushBack(projects, projectName, filePath) ==
  LET i == ExistingCondition(projects, projectName)
      condition ==
        IF i = 0
        THEN StoredProject(projectName, <<Rule("file", <<>>, "", "")>>)
        ELSE projects[i]
      first == condition.rules[1]
      pushed ==
        IF ArrayIncludes(first.path, filePath)
        THEN condition
        ELSE [condition EXCEPT !.rules[1].path = Append(first.path, filePath)]
  IN  IF condition.rules = <<>>
      THEN <<"throw", "TypeError">>
      ELSE IF i = 0
      THEN <<"ok", Append(projects, pushed)>>
      ELSE <<"ok", [projects EXCEPT ![i] = pushed]>>

\* Mutant of addRuleEntry: the file name is stored in place of the path.
addRuleEntry_StoresTail(projects, projectName, filePath) ==
  LET i == ExistingCondition(projects, projectName)
      condition ==
        IF i = 0
        THEN StoredProject(projectName, <<Rule("file", <<>>, "", "")>>)
        ELSE projects[i]
      first == condition.rules[1]
      pushed ==
        IF ArrayIncludes(first.path, FileTail(filePath))
        THEN condition
        ELSE [condition EXCEPT
                !.rules[1].path = Append(first.path, FileTail(filePath))]
  IN  IF condition.rules = <<>>
      THEN <<"throw", "TypeError">>
      ELSE IF i = 0
      THEN <<"ok", <<pushed>> \o projects>>
      ELSE <<"ok", [projects EXCEPT ![i] = pushed]>>

\* Mutant of addRuleEntry: the templates of the rule written to are stored
\* as resolved for the file saved.
addRuleEntry_WritesResolved(projects, projectName, filePath) ==
  LET i == ExistingCondition(projects, projectName)
      condition ==
        IF i = 0
        THEN StoredProject(projectName, <<Rule("file", <<>>, "", "")>>)
        ELSE projects[i]
      first == condition.rules[1]
      resolved ==
        [n \in 1..Len(first.path) |->
           realPath("switcher", first.path[n], FileRoot(FileTail(filePath)),
                    first, HomeDirectory)]
      pushed ==
        IF ArrayIncludes(first.path, filePath)
        THEN [condition EXCEPT !.rules[1].path = resolved]
        ELSE [condition EXCEPT !.rules[1].path = Append(resolved, filePath)]
  IN  IF condition.rules = <<>>
      THEN <<"throw", "TypeError">>
      ELSE IF i = 0
      THEN <<"ok", <<pushed>> \o projects>>
      ELSE <<"ok", [projects EXCEPT ![i] = pushed]>>

\* addRule, from the parsed store up to the value handed to writeTextFile:
\* the projects to write, or <<"throw", message>>.
addRuleEntry(projects, projectName, filePath) ==
  LET i == ExistingCondition(projects, projectName)
      condition ==
        IF i = 0
        THEN StoredProject(projectName, <<Rule("file", <<>>, "", "")>>)
        ELSE projects[i]
      first == condition.rules[1]
      pushed ==
        IF ArrayIncludes(first.path, filePath)
        THEN condition
        ELSE [condition EXCEPT !.rules[1].path = Append(first.path, filePath)]
  IN  IF condition.rules = <<>>
      THEN <<"throw", "TypeError">>            \* condition.rules[0].path
      ELSE IF i = 0
      THEN <<"ok", <<pushed>> \o projects>>    \* projects.unshift(condition)
      ELSE <<"ok", [projects EXCEPT ![i] = pushed]>>

\* addRule up to its last await: what the request holds before it writes.
addRule(st, buf, cwd, projectName) ==
  LET filePath == RealPathSync(buf, cwd)       \* getCurrentFileRealPath
      entry == addRuleEntry(st.projects, projectName, filePath)
  IN  IF st.status = "unset"
      THEN Snap("throw", "AssertError", projectName, "", <<>>, st)
      ELSE IF st.status = "missing"
      THEN Snap("throw", "NotFound", projectName, "", <<>>, st)
      ELSE IF st.status \in {"empty", "badjson"}
      THEN Snap("throw", "SyntaxError", projectName, "", <<>>, st)
      ELSE IF st.status = "badschema"
      THEN Snap("throw", "TypeError", projectName, "", <<>>, st)
      ELSE IF filePath = NotFound
      THEN Snap("throw", "NotFound", projectName, "", <<>>, st)
      ELSE IF entry[1] = "throw"
      THEN Snap("throw", entry[2], projectName, filePath, <<>>, st)
      ELSE Snap("ok", "", projectName, filePath, entry[2], st)

\* Mutant of FormatPath: the entries are numbered from 1.
FormatPath_OneBased(p, i) ==
  "[" \o ToString(i + 1) \o "]: '" \o FileTail(p) \o "' path: " \o p

\* main.ts selectSwitchRule: the line "[i]: 'fileName' path: p" (the source
\* quotes the file name with grave accents, written ' here).
FormatPath(p, i) ==
  "[" \o ToString(i) \o "]: '" \o FileTail(p) \o "' path: " \o p

\* main.ts openSelectedFile: selectedLine.split("path: ").at(-1)
ParseSelectedPath(selectedLine) ==
  LET i == LastIndexOf(selectedLine, "path: ")
  IN  IF i = 0 THEN selectedLine
      ELSE SubSeq(selectedLine, i + 6, Len(selectedLine))

\* g:switch_rule when it is set.
StorePath == "/h/rule.json"

\* Longest run of requests to the entry points.
MaxEdits == 3

\* Stores the entry points are run against.
EditStoreSet ==
  {Store(st, <<>>) : st \in {"unset", "missing", "empty", "badjson", "badschema"}}
  \cup {Store("ok", ps) :
          ps \in {<<>>, <<PScenarioA("p")>>, <<PEmptyRules>>,
                  <<PReadmeGit, PScenarioA("p")>>, <<PEmptyPath>>,
                  <<PLabelled>>}}

\* Names given to :SaveSwitchRule and :SelectSwitchRule.
EditNames == {"p", "proj"}

\* Buffers a request is made from: a file, a link to it, a buffer not yet
\* written to disk.
EditBufferSet == {"/a/fooTest.ts", "/l/foo.ts", "/n/new.ts"}

EditInit ==
  /\ variant \in Variants
  /\ store \in EditStoreSet
  /\ curBuf \in EditBufferSet
  /\ gitLines = NoRepoLines /\ denoCwd = "/z"
  /\ alive = TRUE
  /\ req = Request("none", "", "", "")
  /\ out = Outcome("none", Undefined, "", NoProject)
  /\ EditIdle
  /\ SelIdle
  /\ MatchIdle
  /\ ResolveIdle

\* :SaveSwitchRule name, running alone from its read to its write.  An
\* error leaves the dispatcher method uncaught (ret "throw").
SaveSwitchRule(name) ==
  /\ alive /\ nOps < MaxEdits
  /\ LET s == addRule(store, curBuf, denoCwd, name)
     IN  IF s.tag = "throw"
         THEN /\ out' = Outcome("throw", Undefined, s.msg, NoProject)
              /\ UNCHANGED store
         ELSE /\ out' = Outcome("void", Undefined,
                                "Rule " \o name \o " added successfully.",
                                NoProject)
              /\ store' = Store("ok", s.projects)
  /\ req' = Request("save", "", name, curBuf)
  /\ nOps' = nOps + 1
  /\ UNCHANGED <<variant, curBuf, alive, win, pc, snap, log, envVars,
                 selVars, matchVars, resVars>>

\* :SelectSwitchRule [name]
SelectSwitchRule(name) ==
  /\ alive /\ nOps < MaxEdits
  /\ LET got == getSwitcherRule(variant, store, curBuf, "file", name)
     IN  /\ out' =
              IF got.tag = "exit"
              THEN Outcome("exit", Undefined, got.msg, NoProject)
              ELSE IF got.tag = "throw"
              THEN Outcome("throw", Undefined, got.msg, NoProject)
              ELSE IF got.project = NoProject
              THEN Outcome("void", Undefined, "No switch rule found.", NoProject)
              ELSE IF got.project.path = <<>>       \* nvim_open_win, height 0
              THEN Outcome("throw", Undefined, "height", got.project)
              ELSE Outcome("void", Undefined, "", got.project)
  /\ win' = IF out'.ret = "void" /\ out'.matched # NoProject
            THEN [i \in 1..Len(out'.matched.path) |->
                    FormatPath(out'.matched.path[i], i - 1)] \o <<"">>
            ELSE win
  /\ alive' = (out'.ret # "exit")
  /\ req' = Request("select", "file", name, curBuf)
  /\ nOps' = nOps + 1
  /\ UNCHANGED <<variant, store, curBuf, pc, snap, log, envVars, selVars,
                 matchVars, resVars>>

\* A digit key in the floating window: openSelectedFile(index)
OpenSelectedFile(index) ==
  /\ alive /\ nOps < MaxEdits
  /\ LET hits == {i \in 1..Len(win) :
                    StartsWith(win[i], "[" \o ToString(index) \o "]")}
         selectedLine ==
           IF hits = {} THEN Undefined
           ELSE win[CHOOSE i \in hits : \A j \in hits : i <= j]
         filePath ==
           IF Falsy(selectedLine) THEN Undefined
           ELSE ParseSelectedPath(selectedLine)
     IN  IF Falsy(filePath)
         THEN /\ out' = Outcome("void", Undefined, "", NoProject)
              /\ UNCHANGED <<curBuf, win>>
         ELSE /\ out' = Outcome("void", filePath, "", NoProject)
              /\ curBuf' = filePath
              /\ win' = <<>>
  /\ req' = Request("openSelected", "", ToString(index), curBuf)
  /\ nOps' = nOps + 1
  /\ UNCHANGED <<variant, store, alive, pc, snap, log, envVars, selVars,
                 matchVars, resVars>>

\* :OpenSwitchRule.  The test !v.g.get(...) negates a promise: never true.
OpenSwitchRule ==
  /\ alive /\ nOps < MaxEdits
  /\ IF store.status = "unset"
     THEN /\ out' = Outcome("throw", Undefined, "AssertError", NoProject)
          /\ UNCHANGED curBuf
     ELSE /\ out' = Outcome("void", StorePath, "", NoProject)
          /\ curBuf' = StorePath
  /\ req' = Request("openRule", "", "", curBuf)
  /\ nOps' = nOps + 1
  /\ UNCHANGED <<variant, store, alive, win, pc, snap, log, envVars, selVars,
                 matchVars, resVars>>

EditNext ==
  \/ \E name \in EditNames : SaveSwitchRule(name)
  \/ \E name \in EditNames \cup {""} : SelectSwitchRule(name)
  \/ \E index \in 0..1 : OpenSelectedFile(index)
  \/ OpenSwitchRule

SpecEdit == EditInit /\ [][EditNext]_vars

\* C11: saveSwitchRule, selectSwitchRule, openSelectedFile and
\* openSwitchRule end with a success or failure signal in every
\* configuration state: no error escapes and the process lives on.
C11_NoErrorEscapes ==
  (req.op \in {"save", "select", "openSelected", "openRule"})
  => (out.ret # "throw" /\ alive)

(***************************************************************************)
(* SpecSave: save requests in flight together.  addRule reads the store,   *)
(* awaits the editor for the current file, and writes the store whole;     *)
(* another request may run between its read and its write.                 *)
(***************************************************************************)

SaveStoreSet ==
  {Store("ok", ps) :
     ps \in {<<>>, <<PScenarioA("p")>>, <<PEmptyRules>>,
             <<PReadmeGit, PScenarioA("p")>>, <<PGitFirst>>}}

\* Buffers a save is issued from: a file no rule holds, a link to a file of
\* Scenario A's rule, a buffer not yet written to disk.
SaveBufferSet == {"/z/unrelated.txt", "/l/foo.ts", "/n/new.ts"}

SaveInit ==
  /\ variant \in Variants
  /\ store \in SaveStoreSet
  /\ curBuf \in SaveBufferSet
  /\ gitLines = NoRepoLines /\ denoCwd = "/z"
  /\ alive = TRUE
  /\ req = Request("none", "", "", "")
  /\ out = Outcome("none", Undefined, "", NoProject)
  /\ EditIdle
  /\ SelIdle
  /\ MatchIdle
  /\ ResolveIdle

\* :SaveSwitchRule name issued from buffer buf, up to the await before the
\* write.  An error ends the request here.
SaveRead(p, name, buf) ==
  /\ alive
  /\ pc[p] = "idle"
  /\ curBuf' = buf
  /\ snap' = [snap EXCEPT ![p] = addRule(store, buf, denoCwd, name)]
  /\ log' = Append(log, <<"read", p>>)
  /\ req' = Request("save", "", name, buf)
  /\ IF snap'[p].tag = "throw"
     THEN /\ pc' = [pc EXCEPT ![p] = "failed"]
          /\ out' = Outcome("throw", Undefined, snap'[p].msg, NoProject)
     ELSE /\ pc' = [pc EXCEPT ![p] = "write"]
          /\ out' = Outcome("pending", Undefined, "", NoProject)
  /\ UNCHANGED <<variant, store, alive, win, nOps, envVars, selVars,
                 matchVars, resVars>>

\* Mutant of SaveWrite: the store is read again and changed in one step.
SaveWrite_Merge(p) ==
  /\ alive
  /\ pc[p] = "write"
  /\ store' = Store("ok", addRuleEntry(store.projects, snap[p].name,
                                       snap[p].file)[2])
  /\ pc' = [pc EXCEPT ![p] = "done"]
  /\ log' = Append(log, <<"write", p>>)
  /\ req' = Request("save", "", snap[p].name, snap[p].file)
  /\ out' = Outcome("void", Undefined,
                    "Rule " \o snap[p].name \o " added successfully.", NoProject)
  /\ UNCHANGED <<variant, curBuf, alive, win, snap, nOps, envVars, selVars,
                 matchVars, resVars>>

\* Deno.writeTextFile(switchRulePath, JSON.stringify(switchRules, null, 2))
SaveWrite(p) ==
  /\ alive
  /\ pc[p] = "write"
  /\ store' = Store("ok", snap[p].projects)
  /\ pc' = [pc EXCEPT ![p] = "done"]
  /\ log' = Append(log, <<"write", p>>)
  /\ req' = Request("save", "", snap[p].name, snap[p].file)
  /\ out' = Outcome("void", Undefined,
                    "Rule " \o snap[p].name \o " added successfully.", NoProject)
  /\ UNCHANGED <<variant, curBuf, alive, win, snap, nOps, envVars, selVars,
                 matchVars, resVars>>

SaveNext ==
  \/ \E p \in Procs, name \in EditNames, buf \in SaveBufferSet :
       SaveRead(p, name, buf)
  \/ \E p \in Procs : SaveWrite(p)

SpecSave == SaveInit /\ [][SaveNext]_vars

\* Request p wrote the store last.
WroteLast(p) == log # <<>> /\ log[Len(log)] = <<"write", p>>

\* No path list of the store holds an entry twice.
NoDuplicatePaths ==
  \A i \in 1..Len(store.projects) :
    \A j \in 1..Len(store.projects[i].rules) :
      \A k, l \in 1..Len(store.projects[i].rules[j].path) :
        store.projects[i].rules[j].path[k] = store.projects[i].rules[j].path[l]
        => k = l

\* Request p ran alone from its read to its write, then q did.
OneAfterTheOther(p, q) ==
  log = <<<<"read", p>>, <<"write", p>>, <<"read", q>>, <<"write", q>>>>

\* C17: a save to an existing project appends the file to the path list of
\* the project's first rule unless it is there already; no path list ever
\* holds a duplicate; saving the same file to the same project twice leaves
\* the store as saving it once.
C17_AppendWithoutDuplicates ==
  /\ NoDuplicatePaths
  /\ \A p \in Procs :
       LET before == snap[p].readStore.projects
           i == ExistingCondition(before, snap[p].name)
       IN  (WroteLast(p) /\ i # 0)
           => /\ Len(store.projects) = Len(before)
              /\ \A n \in 1..Len(before) : n # i => store.projects[n] = before[n]
              /\ store.projects[i].name = before[i].name
              /\ Tail(store.projects[i].rules) = Tail(before[i].rules)
              /\ store.projects[i].rules[1].rule = before[i].rules[1].rule
              /\ store.projects[i].rules[1].path =
                   IF ArrayIncludes(before[i].rules[1].path, snap[p].file)
                   THEN before[i].rules[1].path
                   ELSE Append(before[i].rules[1].path, snap[p].file)
  /\ \A p, q \in Procs :
       (/\ OneAfterTheOther(p, q)
        /\ snap[p].name = snap[q].name /\ snap[p].file = snap[q].file)
       => store.projects = snap[p].projects

\* C17 witness: the same file saved twice to the same existing project, which
\* did not hold it before.
C17_Witness ==
  \E p, q \in Procs :
    /\ OneAfterTheOther(p, q)
    /\ snap[p].name = snap[q].name /\ snap[p].file = snap[q].file
    /\ ExistingCondition(snap[p].readStore.projects, snap[p].name) # 0
    /\ snap[p].readStore.projects # store.projects

\* Request p has just written a project that the store it read did not hold.
SavedNewProject(p) ==
  /\ WroteLast(p)
  /\ ExistingCondition(snap[p].readStore.projects, snap[p].name) = 0

\* C18: a save under a name no project carries puts a project with exactly
\* one rule, PathBased, path list [filePath], at index 0; the projects that
\* were there follow in their order.
C18_NewProjectAtFront ==
  \A p \in Procs :
    SavedNewProject(p)
    => store.projects =
         <<StoredProject(snap[p].name,
                         <<Rule("file", <<snap[p].file>>, "", "")>>)>>
         \o snap[p].readStore.projects

\* C18 witness: a new project was put in front of two others.
C18_Witness ==
  \E p \in Procs :
    /\ SavedNewProject(p)
    /\ Len(snap[p].readStore.projects) = 2
    /\ Len(store.projects) = 3

\* C19: after a save under a name no project carried, matching with kind
\* PathBased and that name returns a rule whose path list is exactly the
\* file saved, whatever the current file.
C19_SaveThenMatch ==
  \A p \in Procs :
    SavedNewProject(p)
    => \A buf \in SaveBufferSet :
         LET got == getSwitcherRule(variant, store, buf, "file", snap[p].name)
         IN  /\ got.tag = "ok"
             /\ got.project.name = snap[p].name
             /\ got.project.path = <<snap[p].file>>

\* C19 witness: the store held a rule whose path contains the current file
\* when the new project was saved.
C19_Witness ==
  \E p \in Procs :
    /\ SavedNewProject(p)
    /\ snap[p].name = "proj"
    /\ snap[p].file = "/a/foo.ts"
    /\ \E i \in 1..Len(snap[p].readStore.projects) :
         snap[p].readStore.projects[i] = PScenarioA("p")

\* Both requests read the store before either wrote it; x wrote first, y last.
Raced(x, y) ==
  \/ log = <<<<"read", x>>, <<"read", y>>, <<"write", x>>, <<"write", y>>>>
  \/ log = <<<<"read", y>>, <<"read", x>>, <<"write", x>>, <<"write", y>>>>

\* The first rule of a project named name holds file.
HasEntry(projects, name, file) ==
  \E i \in 1..Len(projects) :
    /\ projects[i].name = name
    /\ projects[i].rules # <<>>
    /\ ArrayIncludes(projects[i].rules[1].path, file)

\* The store as one save of file under name makes it from projects.
SavedOnce(projects, name, file) ==
  LET i == ExistingCondition(projects, name)
  IN  IF i = 0
      THEN <<StoredProject(name, <<Rule("file", <<file>>, "", "")>>)>> \o projects
      ELSE IF ArrayIncludes(projects[i].rules[1].path, file)
      THEN projects
      ELSE [projects EXCEPT
              ![i].rules[1].path = Append(projects[i].rules[1].path, file)]

\* C20: when two save requests read the store before either writes, the
\* store ends as the request writing last computed it from what it read;
\* the entry the other request added is absent, though both requests ended
\* with their success message.
C20_LastWriterWins ==
  \A x, y \in Procs :
    Raced(x, y)
    => /\ snap[x].readStore = snap[y].readStore
       /\ pc[x] = "done" /\ pc[y] = "done"
       /\ store.projects =
            SavedOnce(snap[x].readStore.projects, snap[y].name, snap[y].file)
       /\ (/\ ~HasEntry(snap[x].readStore.projects, snap[x].name, snap[x].file)
           /\ <<snap[x].name, snap[x].file>> # <<snap[y].name, snap[y].file>>)
          => ~HasEntry(store.projects, snap[x].name, snap[x].file)

\* C20 witness: two requests raced with different entries; the first
\* writer's entry is gone.
C20_Witness ==
  \E x, y \in Procs :
    /\ Raced(x, y)
    /\ snap[x].name # snap[y].name
    /\ ~HasEntry(snap[x].readStore.projects, snap[x].name, snap[x].file)
    /\ ~HasEntry(store.projects, snap[x].name, snap[x].file)
    /\ HasEntry(store.projects, snap[y].name, snap[y].file)

(***************************************************************************)
(* SpecSession: navigation, selection, saves and edits of the store file   *)
(* following one another in one editor session.                            *)
(***************************************************************************)

\* Stores of a session; an edit of the store file leads to any of them.
SessionStoreSet ==
  {Store("ok", ps) :
     ps \in {<<>>, <<PScenarioA("p")>>, <<PReadmeGit, PScenarioA("p")>>}}

\* Buffers a session starts from: a file of Scenario A's rule, and a file
\* of the same name in another directory.
SessionBufferSet == {"/a/foo.ts", "/z/foo.ts"}

SessionInit ==
  /\ variant \in Variants
  /\ store \in SessionStoreSet
  /\ curBuf \in SessionBufferSet
  /\ gitLines = RepoLines /\ denoCwd = "/r"
  /\ alive = TRUE
  /\ req = Request("none", "", "", "")
  /\ out = Outcome("none", Undefined, "", NoProject)
  /\ EditIdle
  /\ SelIdle
  /\ MatchIdle
  /\ ResolveIdle

\* Mutant of SwitchFileByRule: the configuration read by an earlier
\* navigation request is used again.
SwitchFileByRule_Cached(rule, name) ==
  /\ alive /\ nOps < MaxEdits
  /\ out' = switchByRule(variant,
                         IF snap[1].tag = "read" THEN snap[1].readStore ELSE store,
                         curBuf, rule, name, gitLines, denoCwd)
  /\ curBuf' = IF out'.open = Undefined THEN curBuf ELSE out'.open
  /\ alive' = (out'.ret # "exit")
  /\ req' = Request("switch", rule, name, curBuf)
  /\ snap' = [snap EXCEPT ![1] = Snap("read", "", name, "", <<>>, store)]
  /\ nOps' = nOps + 1
  /\ UNCHANGED <<variant, store, win, pc, log, envVars, selVars, matchVars,
                 resVars>>

\* Mutant of SwitchFileByRule: a file opened is also noted in the store.
SwitchFileByRule_Records(rule, name) ==
  /\ alive /\ nOps < MaxEdits
  /\ out' = switchByRule(variant, store, curBuf, rule, name, gitLines, denoCwd)
  /\ curBuf' = IF out'.open = Undefined THEN curBuf ELSE out'.open
  /\ alive' = (out'.ret # "exit")
  /\ req' = Request("switch", rule, name, curBuf)
  /\ snap' = [snap EXCEPT ![1] = Snap("read", "", name, "", <<>>, store)]
  /\ store' = IF out'.open = Undefined THEN store
              ELSE Store("ok", addRuleEntry(store.projects, "recent",
                                            out'.open)[2])
  /\ nOps' = nOps + 1
  /\ UNCHANGED <<variant, win, pc, log, envVars, selVars, matchVars, resVars>>

\* :SwitchFileByRule [rule] [name] as one request of a session.  snap[1]
\* records the store content the request read; no request reads snap.
SwitchFileByRule(rule, name) ==
  /\ alive /\ nOps < MaxEdits
  /\ out' = switchByRule(variant, store, curBuf, rule, name, gitLines, denoCwd)
  /\ curBuf' = IF out'.open = Undefined THEN curBuf ELSE out'.open
  /\ alive' = (out'.ret # "exit")
  /\ req' = Request("switch", rule, name, curBuf)
  /\ snap' = [snap EXCEPT ![1] = Snap("read", "", name, "", <<>>, store)]
  /\ nOps' = nOps + 1
  /\ UNCHANGED <<variant, store, win, pc, log, envVars, selVars, matchVars,
                 resVars>>

\* The user edits the store file and writes it.
ExternalEdit(st) ==
  /\ alive /\ nOps < MaxEdits
  /\ st # store
  /\ store' = st
  /\ req' = Request("edit", "", "", curBuf)
  /\ out' = Outcome("void", Undefined, "", NoProject)
  /\ nOps' = nOps + 1
  /\ UNCHANGED <<variant, curBuf, alive, win, pc, snap, log, envVars, selVars,
                 matchVars, resVars>>

SessionNext ==
  \/ \E rule \in {"file", "git"}, name \in {"", "proj"} :
       SwitchFileByRule(rule, name)
  \/ \E name \in EditNames : SaveSwitchRule(name)
  \/ \E name \in {"", "proj"} : SelectSwitchRule(name)
  \/ \E index \in 0..1 : OpenSelectedFile(index)
  \/ \E st \in SessionStoreSet : ExternalEdit(st)

SpecSession == SessionInit /\ [][SessionNext]_vars

\* C21: every navigation request resolves against the store content of the
\* moment it starts, and every save request changes the store content of
\* the moment it starts: what a save or an edit wrote is what the next
\* request sees.
C21_StoreReadOnEveryRequest ==
  [][/\ (nOps' # nOps /\ req'.op = "switch")
        => out' = switchByRule(variant, store, curBuf, req'.rule, req'.name,
                               gitLines, denoCwd)
     /\ (nOps' # nOps /\ req'.op = "select" /\ out'.ret = "void")
        => out'.matched =
             getSwitcherRule(variant, store, curBuf, "file", req'.name).project
     /\ (nOps' # nOps /\ req'.op = "save" /\ out'.ret = "void")
        => store'.projects =
             SavedOnce(store.projects, req'.name, RealPathSync(curBuf, denoCwd))
    ]_vars

\* C21 witness: a navigation request matched the project that a save
\* request of the session had created.
C21_Witness ==
  /\ req.op = "switch"
  /\ out.matched.name = "proj"
  /\ ExistingCondition(store.projects, "proj") # 0

\* C30: switchByRule, selectSwitchRule and openSelectedFile leave the store
\* as it is, whether they succeed or fail; the store changes only in a save
\* request or when the user edits the file.
C30_NavigationLeavesStore ==
  [][/\ (req'.op \in {"switch", "select", "openSelected"}) => store' = store
     /\ (store' # store) => req'.op \in {"save", "edit"}
    ]_vars

\* C30 witness: a run of three navigation requests, the last of which opened
\* a file picked in the selection window.
C30_Witness ==
  /\ nOps = 3
  /\ req.op = "openSelected"
  /\ out.open # Undefined
  /\ store \in SessionStoreSet

FileRuleMatched ==
  /\ SwitchedOnOkStore
  /\ out.matched.rule = "file"
  /\ out.matched.path # <<>>
  /\ RealPathSync(req.buf, denoCwd) # NotFound

\* Positions of the matched rule's entries that contain the real path of
\* the current file or are contained in it.
CurrentHits ==
  {i \in 1..Len(out.matched.path) :
     \/ Includes(RealPathSync(req.buf, denoCwd), out.matched.path[i])
     \/ Includes(out.matched.path[i], RealPathSync(req.buf, denoCwd))}

SameNameRules == {i \in 1..Len(mProjects) : mProjects[i].name = mName}

\* C24: when several projects share a name, a PathBased match by that name
\* returns a rule of the first of them in declaration order.
C24_FirstOfSameName ==
  (mDone /\ mRule = "file" /\ SameNameRules # {}
     /\ mProjects[Least(SameNameRules)].rule = "file")
  => mRes = mProjects[Least(SameNameRules)]

\* Digits the keys of the floating window pass to openSelectedFile.
SelectKeys == 0..1

\* C25: after selectSwitchRule listed the path list P, openSelectedFile(i)
\* with 0 <= i < Len(P) closes the window and opens exactly P[i]; with an
\* index that has no entry it opens nothing and changes nothing.
C25_SelectionRoundTrip ==
  [][(/\ req.op = "select" /\ out.ret = "void" /\ out.matched # NoProject
      /\ req'.op = "openSelected")
     => \A i \in SelectKeys :
          req'.name = ToString(i)
          => IF i < Len(out.matched.path)
             THEN /\ out'.open = out.matched.path[i + 1]
                  /\ curBuf' = out.matched.path[i + 1]
                  /\ win' = <<>>
             ELSE /\ out'.open = Undefined
                  /\ UNCHANGED <<curBuf, win, store>>]_vars

\* C26: the rule the matcher returns has the requested kind, also when it
\* was found through path containment: a PathBased request never yields a
\* TrackedFile rule, and conversely.
C26_RequestedKind ==
  (mDone /\ mRes # NoProject) => mRes.rule = mRule

\* The matched rule does not carry the requested name: it was found because
\* one of its entries contains the name of the current file.
MatchedByContainment ==
  /\ FileRuleMatched
  /\ out.matched.name # req.name
  /\ PathHolds(out.matched, FileTail(req.buf))

\* C27: when a PathBased rule is selected through path containment (tested
\* with the current file NAME), the cyclic selector (testing the current
\* file's REAL PATH) finds a position in that rule's path list, and the file
\* opened is the successor of the current file.
C27_MatcherAndSelectorAgree ==
  MatchedByContainment
  => /\ CurrentHits # {}
     /\ out.open =
          out.matched.path[(Least(CurrentHits) % Len(out.matched.path)) + 1]

\* C28: after saveSwitchRule(p) completes for the current file f, whatever
\* the store held before (a project p whose first rule is TrackedFile
\* included), a PathBased match with name p made from that file returns a
\* rule whose path list contains f.
C28_SavedFileReachable ==
  \A p \in Procs :
    WroteLast(p)
    => \A buf \in SaveBufferSet :
         RealPathSync(buf, denoCwd) = snap[p].file
         => LET got == getSwitcherRule(variant, store, buf, "file", snap[p].name)
            IN  /\ got.tag = "ok"
                /\ got.project # NoProject
                /\ ArrayIncludes(got.project.path, snap[p].file)

\* after is before with at most one entry added at the end of the path list
\* of the first rule of project i.
OnlyFirstPathListGrew(before, after, i) ==
  /\ Len(after) = Len(before)
  /\ \A n \in 1..Len(before) : n # i => after[n] = before[n]
  /\ after[i].name = before[i].name
  /\ Len(after[i].rules) = Len(before[i].rules)
  /\ \A j \in 2..Len(before[i].rules) : after[i].rules[j] = before[i].rules[j]
  /\ after[i].rules[1].rule = before[i].rules[1].rule
  /\ after[i].rules[1].prefix = before[i].rules[1].prefix
  /\ after[i].rules[1].postfix = before[i].rules[1].postfix
  /\ Len(after[i].rules[1].path) <= Len(before[i].rules[1].path) + 1
  /\ SubSeq(after[i].rules[1].path, 1, Len(before[i].rules[1].path))
       = before[i].rules[1].path

\* after is before with one project of one rule put in front.
OneProjectInFront(before, after) ==
  /\ Len(after) = Len(before) + 1
  /\ Tail(after) = before
  /\ Len(after[1].rules) = 1

\* C29: a save writes back what it read with at most the path list of the
\* first rule of one project changed, or with one new project in front;
\* every other project and rule, their order, and every stored template
\* (unresolved % and ~ included) are written back as they were read.
C29_SaveFrame ==
  \A p \in Procs :
    WroteLast(p)
    => \/ OneProjectInFront(snap[p].readStore.projects, store.projects)
       \/ \E i \in 1..Len(store.projects) :
            OnlyFirstPathListGrew(snap[p].readStore.projects, store.projects, i)

\* C29 witness: a save added a file to a project of two rules whose first
\* rule holds templates.
C29_Witness ==
  \E p \in Procs :
    /\ WroteLast(p)
    /\ snap[p].readStore.projects = <<PGitFirst>>
    /\ store.projects[1].rules[1].path =
         <<"%.ts", "%Test.ts", "/z/unrelated.txt">>
    /\ store.projects[1].rules[2] = PGitFirst.rules[2]

====
